---- MODULE Spec2Model ----
(***************************************************************************)
(* Model of visualization.py: the air-quality dashboard script.  The       *)
(* script is one straight-line run: load three CSV files, preprocess,      *)
(* compute statistics and aggregations, write dashboard.html.  Each        *)
(* numbered block of the script is one action; pc is the script position.  *)
(*                                                                         *)
(* Numbers are exact rationals [n |-> num, d |-> den] (d > 0); NaN is the   *)
(* record with d = 0.  Text is a sequence of one-character strings.        *)
(***************************************************************************)
EXTENDS Integers, Sequences, FiniteSets, TLC

VARIABLES
    csv,          \* the three CSV files of the working directory
    city_day,     \* the daily data frame
    city_hour,    \* the hourly data frame
    station_day,  \* the station data frame
    pc,           \* position of the run in the script
    col_i,        \* index into pollutants of the trimming loop
    before_trim,  \* city_day as it was before the latest trimming iteration
    err,          \* the exception that ended the run, if any
    images,       \* keys of the images dictionary
    stats,        \* the stats dictionary
    tables,       \* the aggregate tables computed so far, by name
    html,         \* what was written to dashboard.html
    done          \* the preprocessing stages city_day has been through

vars == <<csv, city_day, city_hour, station_day, pc, col_i, before_trim,
          err, images, stats, tables, html, done>>

----------------------------------------------------------------------------
(* Bounds of the model *)

MaxRows == 3

----------------------------------------------------------------------------
(* Numbers *)

NaN == [n |-> 0, d |-> 0]

Num(k) == [n |-> k, d |-> 1]

Cent(k) == [n |-> k, d |-> 100]

isna(v) == v.d = 0

\* IEEE comparison: any comparison with NaN is False
Lt(a, b) == ~isna(a) /\ ~isna(b) /\ a.n * b.d < b.n * a.d

Le(a, b) == ~isna(a) /\ ~isna(b) /\ a.n * b.d <= b.n * a.d

Add(a, b) == [n |-> a.n * b.d + b.n * a.d, d |-> a.d * b.d]

SameNum(a, b) == (isna(a) /\ isna(b)) \/ (~isna(a) /\ ~isna(b) /\ a.n * b.d = b.n * a.d)

RECURSIVE SumSeq(_)
SumSeq(s) == IF Len(s) = 0 THEN Num(0) ELSE Add(Head(s), SumSeq(Tail(s)))

RECURSIVE SelectNums(_)
SelectNums(s) ==
    IF Len(s) = 0 THEN <<>>
    ELSE IF isna(Head(s)) THEN SelectNums(Tail(s))
         ELSE <<Head(s)>> \o SelectNums(Tail(s))

\* Series.mean(): NaN values are skipped; the mean of nothing is NaN
Mean(s) ==
    LET xs == SelectNums(s)
    IN  IF Len(xs) = 0 THEN NaN
        ELSE LET t == SumSeq(xs) IN [n |-> t.n, d |-> t.d * Len(xs)]

\* Series.max(): NaN values are skipped; the max of nothing is NaN
Max(s) ==
    LET xs == SelectNums(s)
    IN  IF Len(xs) = 0 THEN NaN
        ELSE xs[CHOOSE i \in 1..Len(xs) : \A j \in 1..Len(xs) : Le(xs[j], xs[i])]

\* the k-th smallest (k = 0 is the minimum) of a sequence without NaN
KthSmallest(xs, k) ==
    xs[CHOOSE i \in 1..Len(xs) :
          /\ Cardinality({j \in 1..Len(xs) : Lt(xs[j], xs[i])}) <= k
          /\ Cardinality({j \in 1..Len(xs) : Le(xs[j], xs[i])}) > k]

\* Series.quantile(0.99), linear interpolation over the non-NaN values:
\* position h = 0.99 * (n - 1), result x[lo] + frac * (x[lo+1] - x[lo])
quantile99(s) ==
    LET xs == SelectNums(s)
        m  == Len(xs)
    IN  IF m = 0 THEN NaN
        ELSE LET h100 == 99 * (m - 1)
                 lo   == h100 \div 100
                 f    == h100 % 100
                 a    == KthSmallest(xs, lo)
                 b    == IF f = 0 THEN a ELSE KthSmallest(xs, lo + 1)
             IN  [n |-> (100 - f) * a.n * b.d + f * b.n * a.d,
                  d |-> 100 * a.d * b.d]

----------------------------------------------------------------------------
(* Text *)

CasePairs == { <<"a","A">>, <<"b","B">>, <<"d","D">>, <<"e","E">>, <<"h","H">>,
               <<"i","I">>, <<"l","L">>, <<"m","M">>, <<"n","N">>, <<"s","S">>,
               <<"t","T">>, <<"u","U">> }

IsLower(c) == \E p \in CasePairs : p[1] = c

IsUpper(c) == \E p \in CasePairs : p[2] = c

IsCased(c) == IsLower(c) \/ IsUpper(c)

IsSpace(c) == c = " "

upper(c) == IF IsLower(c) THEN (CHOOSE p \in CasePairs : p[1] = c)[2] ELSE c

lower(c) == IF IsUpper(c) THEN (CHOOSE p \in CasePairs : p[2] = c)[1] ELSE c

RECURSIVE lstrip(_)
lstrip(s) == IF Len(s) > 0 /\ IsSpace(Head(s)) THEN lstrip(Tail(s)) ELSE s

RECURSIVE rstrip(_)
rstrip(s) ==
    IF Len(s) > 0 /\ IsSpace(s[Len(s)]) THEN rstrip(SubSeq(s, 1, Len(s) - 1)) ELSE s

\* str.strip()
strip(s) == rstrip(lstrip(s))

\* str.title(): a cased character is upper-cased when the character before
\* it is not cased, and lower-cased otherwise
title(s) ==
    [i \in 1..Len(s) |->
        IF IsCased(s[i])
        THEN IF i > 1 /\ IsCased(s[i-1]) THEN lower(s[i]) ELSE upper(s[i])
        ELSE s[i]]

Delhi == <<"D","e","l","h","i">>

----------------------------------------------------------------------------
(* Data frames: dtypes maps each column to its dtype, rows is the sequence  *)
(* of records (functions from column name to value)                        *)

pollutants == <<"PM2.5", "PM10", "NO2", "NH3", "SO2", "CO", "O3", "Benzene", "Toluene", "Xylene">>

PollutantSet == {pollutants[i] : i \in 1..Len(pollutants)}

\* pd.DataFrame()
EmptyFrame == [dtypes |-> <<>>, rows |-> <<>>]

columns(df) == DOMAIN df.dtypes

\* DataFrame.empty: some axis has length 0
empty(df) == columns(df) = {} \/ Len(df.rows) = 0

Column(df, c) == [i \in 1..Len(df.rows) |-> df.rows[i][c]]

RECURSIVE FilterRows(_, _)
FilterRows(rows, keep) ==
    IF Len(rows) = 0 THEN <<>>
    ELSE (IF keep[1] THEN <<Head(rows)>> ELSE <<>>)
         \o FilterRows(Tail(rows), Tail(keep))

\* df[c] = values (one value per row), with the given dtype
SetColumn(df, c, dtype, values) ==
    [dtypes |-> [k \in columns(df) \cup {c} |-> IF k = c THEN dtype ELSE df.dtypes[k]],
     rows   |-> [i \in 1..Len(df.rows) |->
                   [k \in columns(df) \cup {c} |->
                       IF k = c THEN values[i] ELSE df.rows[i][k]]]]

DropColumn(df, c) ==
    [dtypes |-> [k \in columns(df) \ {c} |-> df.dtypes[k]],
     rows   |-> [i \in 1..Len(df.rows) |-> [k \in columns(df) \ {c} |-> df.rows[i][k]]]]

----------------------------------------------------------------------------
(* Timestamps.  A timestamp cell of a CSV file is text, modelled as the     *)
(* sequence of its numeric fields <<year, month, day, hour>>; the empty     *)
(* sequence is an empty cell.                                              *)

NaT == [nat |-> TRUE, year |-> 0, month |-> 0, day |-> 0, hour |-> 0]

\* the value of a column assigned the scalar None (dtype object)
None == [nat |-> TRUE, year |-> -1, month |-> -1, day |-> -1, hour |-> -1]

IsLeap(y) == (y % 4 = 0 /\ y % 100 # 0) \/ y % 400 = 0

DaysInMonth(y, m) ==
    IF m = 2 THEN (IF IsLeap(y) THEN 29 ELSE 28)
    ELSE IF m \in {4, 6, 9, 11} THEN 30 ELSE 31

\* pd.to_datetime(text, errors='coerce') of one cell
to_datetime(t) ==
    IF /\ Len(t) = 4
       /\ t[2] \in 1..12
       /\ t[3] \in 1..DaysInMonth(t[1], t[2])
       /\ t[4] \in 0..23
    THEN [nat |-> FALSE, year |-> t[1], month |-> t[2], day |-> t[3], hour |-> t[4]]
    ELSE NaT

----------------------------------------------------------------------------
(* The CSV files the run may find.  Every set below is a set of inputs.     *)

DayColumns == {"City", "Datetime"} \cup PollutantSet

DayDtypes == [c \in DayColumns |-> IF c \in PollutantSet THEN "float64" ELSE "object"]

\* a row of city_day.csv: PM2.5 is pm25, every other pollutant is other
DayRow(city, datetime, pm25, other) ==
    [c \in DayColumns |->
        IF c = "City" THEN city
        ELSE IF c = "Datetime" THEN datetime
        ELSE IF c = "PM2.5" THEN pm25 ELSE other]

DelhiPadded == <<"D","e","l","h","i"," ">>

DayRowKinds ==
    { DayRow(DelhiPadded, <<2020, 1, 10, 0>>, Num(10), Num(5)),
      DayRow(DelhiPadded, <<2020, 1, 11, 0>>, NaN, Num(5)),
      DayRow(DelhiPadded, <<2020, 1, 12, 0>>, Num(400), Num(5)),
      DayRow(<<" ","m","u","m","b","a","i">>, <<2021, 13, 1, 0>>, Num(90), NaN),
      DayRow(<<"M","U","M","B","A","I">>, <<2021, 7, 5, 0>>, Num(250), NaN) }

RECURSIVE SeqsUpTo(_, _)
SeqsUpTo(S, k) ==
    IF k = 0 THEN {<<>>}
    ELSE LET shorter == SeqsUpTo(S, k - 1)
         IN  shorter \cup {Append(s, x) : s \in {t \in shorter : Len(t) = k - 1}, x \in S}

\* ten further rows, the j-th holding the largest value of the j-th pollutant
PadRows ==
    [j \in 1..Len(pollutants) |->
        [c \in DayColumns |->
            IF c = "City" THEN <<"m","u","m","b","a","i">>
            ELSE IF c = "Datetime" THEN <<2019, j, 1, 0>>
            ELSE IF c = pollutants[j] THEN Num(1000) ELSE Num(1)]]

DayVariants == {"plain", "padded", "padded_nan_column", "no_datetime", "no_xylene"}

DayFrame(free, variant) ==
    LET rows == IF variant = "plain" THEN free ELSE free \o PadRows
        df   == [dtypes |-> DayDtypes, rows |-> rows]
    IN  IF variant = "no_datetime" THEN DropColumn(df, "Datetime")
        ELSE IF variant = "no_xylene" THEN DropColumn(df, "Xylene")
        ELSE IF variant = "padded_nan_column"
             THEN SetColumn(df, "Xylene", "float64", [i \in 1..Len(rows) |-> NaN])
        ELSE df

\* PM2.5 readings around every category boundary
ProbeValues == {Num(10), Num(30), Cent(3001), Num(60), Num(90), Cent(9001),
                Num(120), Num(250), Cent(25001), Num(400)}

\* one reading in each month of a year, among the ten further rows
ProbeFrames ==
    { DayFrame(<<DayRow(<<"D","E","L","H","I">>, <<2022, m, 15, 0>>, v, Num(5))>>, "padded") :
        m \in 1..12, v \in ProbeValues }

DayFrames ==
    {DayFrame(free, variant) : free \in SeqsUpTo(DayRowKinds, MaxRows), variant \in DayVariants}
    \cup ProbeFrames

HourColumns == {"City", "Datetime", "PM2.5"}

HourRow(city, datetime, pm25) ==
    [c \in HourColumns |->
        IF c = "City" THEN city ELSE IF c = "Datetime" THEN datetime ELSE pm25]

HourFrameFull ==
    [dtypes |-> [c \in HourColumns |-> IF c = "PM2.5" THEN "float64" ELSE "object"],
     rows   |-> << HourRow(<<"d","e","l","h","i">>, <<2020, 1, 10, 8>>, Num(100)),
                   HourRow(<<"D","e","l","h","i"," ">>, <<2020, 1, 11, 8>>, Num(200)),
                   HourRow(<<"M","u","m","b","a","i">>, <<>>, Num(50)) >>]

HourFrames == {HourFrameFull, DropColumn(HourFrameFull, "Datetime")}

StationColumns == {"City", "Station", "PM2.5"}

StationRow(city, station, pm25) ==
    [c \in StationColumns |->
        IF c = "City" THEN city ELSE IF c = "Station" THEN station ELSE pm25]

StationFrameFull ==
    [dtypes |-> [c \in StationColumns |-> IF c = "PM2.5" THEN "float64" ELSE "object"],
     rows   |-> << StationRow(<<"d","e","l","h","i"," ">>, <<"i","t","o">>, Num(100)),
                   StationRow(<<"D","e","l","h","i">>, <<"i","t","o"," ">>, Num(300)),
                   StationRow(<<"M","u","m","b","a","i">>, <<"B","a","n","d","r","a">>, Num(50)) >>]

\* the second frame is a file holding a header line and no rows
StationFrames == {StationFrameFull, [StationFrameFull EXCEPT !.rows = <<>>]}

Absent == [exists |-> FALSE, frame |-> EmptyFrame]

Present(df) == [exists |-> TRUE, frame |-> df]

Files(frames) == {Absent} \cup {Present(df) : df \in frames}

----------------------------------------------------------------------------
(* Pure functions of the script *)

\* lines 19-24
safe_read(file) == IF file.exists THEN file.frame ELSE EmptyFrame

\* lines 37-38, for one of the three frames
NormalizeCity(df) ==
    IF ~empty(df) /\ "City" \in columns(df)
    THEN SetColumn(df, "City", "object",
                   [i \in 1..Len(df.rows) |-> title(strip(df.rows[i]["City"]))])
    ELSE df

\* df['Datetime'] = pd.to_datetime(df.get('Datetime'), errors='coerce'):
\* get() of an absent column is None, to_datetime(None) is None, and the
\* assignment then makes an object column holding None
ParseDatetime(df) ==
    IF "Datetime" \in columns(df)
    THEN SetColumn(df, "Datetime", "datetime64[ns]",
                   [i \in 1..Len(df.rows) |-> to_datetime(df.rows[i]["Datetime"])])
    ELSE SetColumn(df, "Datetime", "object", [i \in 1..Len(df.rows) |-> None])

\* dropna(subset=['Datetime'])
DropNaT(df) ==
    [df EXCEPT !.rows = FilterRows(df.rows, [i \in 1..Len(df.rows) |-> ~df.rows[i]["Datetime"].nat])]

\* Season with September left out of the monsoon months
Season_short_monsoon(x) ==
    IF x \in {12, 1, 2} THEN "Winter"
    ELSE IF x \in {3, 4, 5} THEN "Summer"
    ELSE IF x \in {6, 7, 8} THEN "Monsoon"
    ELSE "Autumn"

\* lines 44-48
Season(x) ==
    IF x \in {12, 1, 2} THEN "Winter"
    ELSE IF x \in {3, 4, 5} THEN "Summer"
    ELSE IF x \in {6, 7, 8, 9} THEN "Monsoon"
    ELSE "Autumn"

\* FillColumn filling with 0 in place of the column mean
FillColumn_zero(df, c) ==
    SetColumn(df, c, "float64",
              [i \in 1..Len(df.rows) |->
                  IF isna(df.rows[i][c]) THEN Num(0) ELSE df.rows[i][c]])

\* line 54, for one column: fillna with the column mean
FillColumn(df, c) ==
    LET mean == Mean(Column(df, c))
    IN  SetColumn(df, c, "float64",
                  [i \in 1..Len(df.rows) |->
                      IF isna(df.rows[i][c]) THEN mean ELSE df.rows[i][c]])

RECURSIVE FillAll(_, _)
FillAll(df, k) == IF k = 0 THEN df ELSE FillColumn(FillAll(df, k - 1), pollutants[k])

\* KeepMask with <= in place of <
KeepMask_le(df, c) ==
    LET q == quantile99(Column(df, c))
    IN  [i \in 1..Len(df.rows) |-> Le(df.rows[i][c], q)]

\* KeepMask written as the negation of > (which lets missing values through)
KeepMask_notgt(df, c) ==
    LET q == quantile99(Column(df, c))
    IN  [i \in 1..Len(df.rows) |-> ~Lt(q, df.rows[i][c])]

\* line 58: the row mask city_day[col] < city_day[col].quantile(0.99)
KeepMask(df, c) ==
    LET q == quantile99(Column(df, c))
    IN  [i \in 1..Len(df.rows) |-> Lt(df.rows[i][c], q)]

\* line 58
TrimColumn(df, c) == [df EXCEPT !.rows = FilterRows(df.rows, KeepMask(df, c))]

\* get_aqi_category with < in place of <=
get_aqi_category_lt(pm25) ==
    IF Lt(pm25, Num(30)) THEN "Good"
    ELSE IF Lt(pm25, Num(60)) THEN "Satisfactory"
    ELSE IF Lt(pm25, Num(90)) THEN "Moderate"
    ELSE IF Lt(pm25, Num(120)) THEN "Poor"
    ELSE IF Lt(pm25, Num(250)) THEN "Very Poor"
    ELSE "Severe"

\* get_aqi_category with one label spelled differently from category_order
get_aqi_category_typo(pm25) ==
    IF Le(pm25, Num(30)) THEN "Good"
    ELSE IF Le(pm25, Num(60)) THEN "Satisfactory"
    ELSE IF Le(pm25, Num(90)) THEN "Moderate"
    ELSE IF Le(pm25, Num(120)) THEN "Poor"
    ELSE IF Le(pm25, Num(250)) THEN "VeryPoor"
    ELSE "Severe"

\* lines 61-67
get_aqi_category(pm25) ==
    IF Le(pm25, Num(30)) THEN "Good"
    ELSE IF Le(pm25, Num(60)) THEN "Satisfactory"
    ELSE IF Le(pm25, Num(90)) THEN "Moderate"
    ELSE IF Le(pm25, Num(120)) THEN "Poor"
    ELSE IF Le(pm25, Num(250)) THEN "Very Poor"
    ELSE "Severe"

\* line 117
category_order == <<"Good", "Satisfactory", "Moderate", "Poor", "Very Poor", "Severe">>

\* Series.value_counts(): the values that occur, each with its count
value_counts(s) ==
    [v \in {s[i] : i \in 1..Len(s)} |-> Cardinality({i \in 1..Len(s) : s[i] = v})]

\* Series.reindex(order, fill_value=0)
reindex(counts, order) ==
    [k \in {order[i] : i \in 1..Len(order)} |-> IF k \in DOMAIN counts THEN counts[k] ELSE 0]

\* df.groupby(keys)[c].mean(): one mean per combination of key values
GroupMean(rows, keys, c) ==
    LET KeyOf(r) == [k \in keys |-> r[k]]
    IN  [g \in {KeyOf(rows[i]) : i \in 1..Len(rows)} |->
            Mean(Column([dtypes |-> <<>>,
                         rows |-> FilterRows(rows, [i \in 1..Len(rows) |-> KeyOf(rows[i]) = g])], c))]

\* nlargest(n) / sort_values(ascending=False).head(n): the n groups of
\* largest value (the choice among equal values is left open)
Largest(t, n) ==
    IF Cardinality(DOMAIN t) <= n THEN DOMAIN t
    ELSE CHOOSE S \in SUBSET DOMAIN t :
            /\ Cardinality(S) = n
            /\ \A a \in S, b \in (DOMAIN t) \ S : Le(t[b], t[a])

Restrict(t, S) == [k \in S |-> t[k]]

RowsWhere(df, c, v) == FilterRows(df.rows, [i \in 1..Len(df.rows) |-> df.rows[i][c] = v])

----------------------------------------------------------------------------
(* The run *)

NoError == [line |-> 0, type |-> "none"]

NotWritten == [written |-> FALSE, sections |-> <<>>, stats |-> <<>>]

\* the preprocessing stages of city_day, in the order of lines 36-69
StageOrder == <<"normalize", "parse", "derive", "impute", "trim", "categorize">>

Init ==
    /\ csv \in [day : Files(DayFrames), hour : Files(HourFrames), station : Files(StationFrames)]
    /\ city_day = EmptyFrame
    /\ city_hour = EmptyFrame
    /\ station_day = EmptyFrame
    /\ pc = "load"
    /\ col_i = 1
    /\ before_trim = EmptyFrame
    /\ err = NoError
    /\ images = {}
    /\ stats = <<>>
    /\ tables = <<>>
    /\ html = NotWritten
    /\ done = <<>>

\* an uncaught exception ends the run
Raise(line, type) ==
    /\ pc' = "error"
    /\ err' = [line |-> line, type |-> type]

\* tables[name] = table
Put(name, table) ==
    [k \in DOMAIN tables \cup {name} |-> IF k = name THEN table ELSE tables[k]]

\* lines 29-31
Load ==
    /\ pc = "load"
    /\ city_day' = safe_read(csv.day)
    /\ city_hour' = safe_read(csv.hour)
    /\ station_day' = safe_read(csv.station)
    /\ pc' = "normalize"
    /\ UNCHANGED <<csv, col_i, before_trim, err, images, stats, tables, html, done>>

\* lines 36-38
Normalize ==
    /\ pc = "normalize"
    /\ city_day' = NormalizeCity(city_day)
    /\ city_hour' = NormalizeCity(city_hour)
    /\ station_day' = NormalizeCity(station_day)
    /\ done' = Append(done, "normalize")
    /\ pc' = "parse_day"
    /\ UNCHANGED <<csv, col_i, before_trim, err, images, stats, tables, html>>

\* lines 40-41
ParseDay ==
    /\ pc = "parse_day"
    /\ city_day' = DropNaT(ParseDatetime(city_day))
    /\ done' = Append(done, "parse")
    /\ pc' = "derive_day"
    /\ UNCHANGED <<csv, city_hour, station_day, col_i, before_trim, err, images, stats,
                   tables, html>>

\* lines 42-48; the .dt accessor raises on a column that is not datetime-like
DeriveDay ==
    /\ pc = "derive_day"
    /\ IF city_day.dtypes["Datetime"] # "datetime64[ns]"
       THEN /\ Raise(42, "AttributeError")
            /\ UNCHANGED <<city_day, done>>
       ELSE /\ LET n      == Len(city_day.rows)
                   year   == [i \in 1..n |-> city_day.rows[i]["Datetime"].year]
                   month  == [i \in 1..n |-> city_day.rows[i]["Datetime"].month]
                   season == [i \in 1..n |-> Season(month[i])]
               IN  city_day' = SetColumn(SetColumn(SetColumn(city_day,
                                   "Year", "int32", year),
                                   "Month", "int32", month),
                                   "Season", "object", season)
            /\ done' = Append(done, "derive")
            /\ pc' = "parse_hour"
            /\ err' = err
    /\ UNCHANGED <<csv, city_hour, station_day, col_i, before_trim, images, stats, tables, html>>

\* lines 50-51; rows without a timestamp stay, with a missing hour
ParseHour ==
    /\ pc = "parse_hour"
    /\ LET parsed == ParseDatetime(city_hour)
       IN  IF parsed.dtypes["Datetime"] # "datetime64[ns]"
           THEN /\ Raise(51, "AttributeError")
                /\ city_hour' = parsed
           ELSE /\ city_hour' = SetColumn(parsed, "Hour", "float64",
                                   [i \in 1..Len(parsed.rows) |->
                                       IF parsed.rows[i]["Datetime"].nat THEN NaN
                                       ELSE Num(parsed.rows[i]["Datetime"].hour)])
                /\ pc' = "impute"
                /\ err' = err
    /\ UNCHANGED <<csv, city_day, station_day, col_i, before_trim, images, stats, tables,
                   html, done>>

\* lines 53-54; selecting a column the frame does not have raises
Impute ==
    /\ pc = "impute"
    /\ IF ~(PollutantSet \subseteq columns(city_day))
       THEN /\ Raise(54, "KeyError")
            /\ UNCHANGED <<city_day, done>>
       ELSE /\ city_day' = FillAll(city_day, Len(pollutants))
            /\ done' = Append(done, "impute")
            /\ pc' = "trim"
            /\ err' = err
    /\ UNCHANGED <<csv, city_hour, station_day, col_i, before_trim, images, stats, tables, html>>

\* lines 56-58, one iteration of the loop
Trim ==
    /\ pc = "trim"
    /\ col_i <= Len(pollutants)
    /\ LET col == pollutants[col_i]
       IN  IF col \in columns(city_day)
           THEN /\ city_day' = TrimColumn(city_day, col)
                /\ before_trim' = city_day
           ELSE UNCHANGED <<city_day, before_trim>>
    /\ done' = IF col_i = 1 THEN Append(done, "trim") ELSE done
    /\ col_i' = col_i + 1
    /\ UNCHANGED <<csv, city_hour, station_day, pc, err, images, stats, tables, html>>

\* line 56, the loop is exhausted
TrimEnd ==
    /\ pc = "trim"
    /\ col_i > Len(pollutants)
    /\ pc' = "categorize"
    /\ UNCHANGED <<csv, city_day, city_hour, station_day, col_i, before_trim, err, images,
                   stats, tables, html, done>>

\* line 69
Categorize ==
    /\ pc = "categorize"
    /\ city_day' = SetColumn(city_day, "AQI_Category", "object",
                       [i \in 1..Len(city_day.rows) |->
                           get_aqi_category(city_day.rows[i]["PM2.5"])])
    /\ done' = Append(done, "categorize")
    /\ pc' = "stats"
    /\ UNCHANGED <<csv, city_hour, station_day, col_i, before_trim, err, images, stats,
                   tables, html>>

\* Series.min() / Series.max() of a datetime column: NaT when there is no row
Before(a, b) ==
    \/ a.year < b.year
    \/ a.year = b.year /\ a.month < b.month
    \/ a.year = b.year /\ a.month = b.month /\ a.day < b.day
    \/ a.year = b.year /\ a.month = b.month /\ a.day = b.day /\ a.hour <= b.hour

Earliest(s) ==
    IF Len(s) = 0 THEN NaT
    ELSE s[CHOOSE i \in 1..Len(s) : \A j \in 1..Len(s) : Before(s[i], s[j])]

Latest(s) ==
    IF Len(s) = 0 THEN NaT
    ELSE s[CHOOSE i \in 1..Len(s) : \A j \in 1..Len(s) : Before(s[j], s[i])]

\* strftime('%Y'): the four digits of the year
strftime_Y(t) == <<t.year \div 1000, (t.year \div 100) % 10, (t.year \div 10) % 10, t.year % 10>>

\* lines 85-88; NaT does not support strftime
Stats ==
    /\ pc = "stats"
    /\ LET pm25  == Column(city_day, "PM2.5")
           first == Earliest(Column(city_day, "Datetime"))
           last  == Latest(Column(city_day, "Datetime"))
       IN  IF first.nat
           THEN /\ Raise(88, "ValueError")
                /\ stats' = [avg_pm25 |-> Mean(pm25), max_pm25 |-> Max(pm25),
                             total_cities |-> Cardinality({city_day.rows[i]["City"] :
                                                             i \in 1..Len(city_day.rows)})]
           ELSE /\ stats' = [avg_pm25 |-> Mean(pm25), max_pm25 |-> Max(pm25),
                             total_cities |-> Cardinality({city_day.rows[i]["City"] :
                                                             i \in 1..Len(city_day.rows)}),
                             date_range |-> <<strftime_Y(first), strftime_Y(last)>>]
                /\ pc' = "trend"
                /\ err' = err
    /\ UNCHANGED <<csv, city_day, city_hour, station_day, col_i, before_trim, images, tables,
                   html, done>>

\* lines 93-108
Trend ==
    /\ pc = "trend"
    /\ LET yearly_avg == GroupMean(city_day.rows, {"City", "Year"}, "PM2.5")
           by_city    == GroupMean(city_day.rows, {"City"}, "PM2.5")
           top_cities == Largest(by_city, 8)
       IN  tables' = [k \in DOMAIN tables \cup {"yearly_filtered", "top_cities"} |->
                        IF k = "top_cities" THEN top_cities
                        ELSE IF k = "yearly_filtered"
                             THEN Restrict(yearly_avg,
                                     {g \in DOMAIN yearly_avg : [City |-> g["City"]] \in top_cities})
                             ELSE tables[k]]
    /\ images' = images \cup {"trend"}
    /\ pc' = "pie"
    /\ UNCHANGED <<csv, city_day, city_hour, station_day, col_i, before_trim, err, stats,
                   html, done>>

\* lines 113-131
Pie ==
    /\ pc = "pie"
    /\ LET aqi_counts == reindex(value_counts(Column(city_day, "AQI_Category")), category_order)
           avg_pollutants == [c \in PollutantSet |-> Mean(Column(city_day, c))]
       IN  tables' = [k \in DOMAIN tables \cup {"aqi_counts", "avg_pollutants"} |->
                        IF k = "aqi_counts" THEN aqi_counts
                        ELSE IF k = "avg_pollutants" THEN avg_pollutants
                             ELSE tables[k]]
    /\ images' = images \cup {"pie"}
    /\ pc' = "seasonal"
    /\ UNCHANGED <<csv, city_day, city_hour, station_day, col_i, before_trim, err, stats,
                   html, done>>

\* line 139
season_colors == {"Winter", "Summer", "Monsoon", "Autumn"}

\* lines 136-159; groupby leaves out the rows whose key is missing
Seasonal ==
    /\ pc = "seasonal"
    /\ LET seasonal_avg == GroupMean(city_day.rows, {"Season"}, "PM2.5")
       IN  IF \E g \in DOMAIN seasonal_avg : g["Season"] \notin season_colors
           THEN /\ Raise(140, "KeyError")
                /\ UNCHANGED <<tables, images>>
           ELSE IF "City" \notin columns(city_hour)
           THEN /\ Raise(147, "KeyError")
                /\ UNCHANGED <<tables, images>>
           ELSE IF "PM2.5" \notin columns(city_hour)
           THEN /\ Raise(148, "KeyError")
                /\ UNCHANGED <<tables, images>>
           ELSE /\ LET delhi_hour == RowsWhere(city_hour, "City", Delhi)
                       timed      == FilterRows(delhi_hour,
                                        [i \in 1..Len(delhi_hour) |-> ~isna(delhi_hour[i]["Hour"])])
                       hourly_avg == GroupMean(timed, {"Hour"}, "PM2.5")
                   IN  tables' = [k \in DOMAIN tables \cup {"seasonal_avg", "hourly_avg"} |->
                                    IF k = "seasonal_avg" THEN seasonal_avg
                                    ELSE IF k = "hourly_avg" THEN hourly_avg
                                         ELSE tables[k]]
                /\ images' = images \cup {"seasonal"}
                /\ pc' = "comparison"
                /\ err' = err
    /\ UNCHANGED <<csv, city_day, city_hour, station_day, col_i, before_trim, stats, html, done>>

\* lines 164-181
Comparison ==
    /\ pc = "comparison"
    /\ LET by_city == GroupMean(city_day.rows, {"City"}, "PM2.5")
           top     == Largest(by_city, 12)
           city_avg == [g \in top |->
                          [c \in {"PM2.5", "PM10", "NO2"} |->
                              GroupMean(city_day.rows, {"City"}, c)[g]]]
       IN  tables' = Put("city_avg", city_avg)
    /\ images' = images \cup {"comparison"}
    /\ pc' = "stations"
    /\ UNCHANGED <<csv, city_day, city_hour, station_day, col_i, before_trim, err, stats,
                   html, done>>

\* lines 186-201
Stations ==
    /\ pc = "stations"
    /\ IF empty(station_day)
       THEN /\ pc' = "heatmap"
            /\ UNCHANGED <<tables, images, err>>
       ELSE IF "City" \notin columns(station_day)
       THEN /\ Raise(187, "KeyError")
            /\ UNCHANGED <<tables, images>>
       ELSE IF {"Station", "PM2.5"} \ columns(station_day) # {}
       THEN /\ Raise(188, "KeyError")
            /\ UNCHANGED <<tables, images>>
       ELSE /\ LET delhi_stations == RowsWhere(station_day, "City", Delhi)
                   by_station     == GroupMean(delhi_stations, {"Station"}, "PM2.5")
                   station_avg    == Restrict(by_station, Largest(by_station, 12))
               IN  tables' = Put("station_avg", station_avg)
            /\ images' = images \cup {"stations"}
            /\ pc' = "heatmap"
            /\ err' = err
    /\ UNCHANGED <<csv, city_day, city_hour, station_day, col_i, before_trim, stats, html, done>>

\* Heatmap rebinding city_day to its pollutant columns before correlating
Heatmap_rebind ==
    /\ pc = "heatmap"
    /\ city_day' = [dtypes |-> [k \in PollutantSet |-> city_day.dtypes[k]],
                    rows   |-> [i \in 1..Len(city_day.rows) |->
                                   [k \in PollutantSet |-> city_day.rows[i][k]]]]
    /\ tables' = Put("corr", PollutantSet \X PollutantSet)
    /\ images' = images \cup {"heatmap"}
    /\ pc' = "write"
    /\ UNCHANGED <<csv, city_hour, station_day, col_i, before_trim, err, stats, html, done>>

\* lines 206-215; of the correlation matrix only the labels are kept
Heatmap ==
    /\ pc = "heatmap"
    /\ tables' = Put("corr", PollutantSet \X PollutantSet)
    /\ images' = images \cup {"heatmap"}
    /\ pc' = "write"
    /\ UNCHANGED <<csv, city_day, city_hour, station_day, col_i, before_trim, err, stats,
                   html, done>>

\* the image cards of the template, lines 550-575
Cards ==
    <<"trend", "pie", "seasonal", "comparison">>
    \o (IF "stations" \in images THEN <<"stations">> ELSE <<>>)
    \o <<"heatmap">>

\* lines 220-587
WriteReport ==
    /\ pc = "write"
    /\ IF \E i \in 1..Len(Cards) : Cards[i] \notin images
       THEN /\ Raise(220, "KeyError")
            /\ html' = html
       ELSE /\ html' = [written |-> TRUE, sections |-> Cards, stats |-> stats]
            /\ pc' = "done"
            /\ err' = err
    /\ UNCHANGED <<csv, city_day, city_hour, station_day, col_i, before_trim, images, stats,
                   tables, done>>

Next ==
    \/ Load
    \/ Normalize
    \/ ParseDay
    \/ DeriveDay
    \/ ParseHour
    \/ Impute
    \/ Trim
    \/ TrimEnd
    \/ Categorize
    \/ Stats
    \/ Trend
    \/ Pie
    \/ Seasonal
    \/ Comparison
    \/ Stations
    \/ Heatmap
    \/ WriteReport

Spec == Init /\ [][Next]_vars

----------------------------------------------------------------------------
(* Properties *)

DayInput == csv.day.frame.rows

DayRows == city_day.rows

\* the trimming loop has run at least one iteration
TrimRan == Len(done) >= 5

\* the Cleaner stage (imputation and the whole trimming loop) is over
CleanerDone == Len(done) >= 5 /\ pc # "trim"

\* the column of the latest trimming iteration
LastTrimmed == pollutants[col_i - 1]

OnlyDaily == csv.day.exists /\ ~csv.hour.exists /\ ~csv.station.exists

DailyWellFormed == DayColumns \subseteq columns(csv.day.frame)

\* C1 (as stated): with only city_day.csv present, no error aborts the run,
\* the station aggregation is never executed and the written report has no
\* station section.
C1_OnlyDailyRunCompletes ==
    (OnlyDaily /\ DailyWellFormed) =>
        /\ pc # "error"
        /\ "station_avg" \notin DOMAIN tables
        /\ (html.written => \A i \in 1..Len(html.sections) : html.sections[i] # "stations")

ScenarioFrame ==
    DayFrame(<< DayRow(DelhiPadded, <<2020, 1, 10, 0>>, Num(10), Num(5)),
                DayRow(DelhiPadded, <<2020, 1, 11, 0>>, NaN, Num(5)),
                DayRow(DelhiPadded, <<2020, 1, 12, 0>>, Num(400), Num(5)) >>, "plain")

Scenario == csv.day = Present(ScenarioFrame)

C4_NoMissingAfterCleaner ==
    CleanerDone =>
        \A i \in 1..Len(DayRows) : \A c \in PollutantSet : ~isna(DayRows[i][c])

\* a cleaned dataset holding a row whose PM2.5 value was imputed
C4_Witness ==
    /\ CleanerDone
    /\ \E i \in 1..Len(DayRows) :
          \A j \in 1..Len(DayInput) : ~SameNum(DayRows[i]["PM2.5"], DayInput[j]["PM2.5"])

\* every timestamp of city_day.csv fails to parse, or the file has no
\* Datetime column; the other columns and the hourly file are as expected
TimestampsFail ==
    /\ csv.day.exists
    /\ Len(DayInput) > 0
    /\ PollutantSet \cup {"City"} \subseteq columns(csv.day.frame)
    /\ \/ "Datetime" \notin columns(csv.day.frame)
       \/ \A i \in 1..Len(DayInput) : to_datetime(DayInput[i]["Datetime"]).nat
    /\ csv.hour = Present(HourFrameFull)

\* C5 (as stated): a timestamp parse failure in the daily dataset never
\* faults the run.
C5_ParseFailureNeverFaults == TimestampsFail => pc # "error"

\* no leading or trailing whitespace, and title-cased
IsNormalized(s) ==
    /\ Len(s) > 0 => ~IsSpace(s[1]) /\ ~IsSpace(s[Len(s)])
    /\ title(s) = s

FrameNormalized(df) ==
    \A i \in 1..Len(df.rows) :
        \A c \in {"City", "Station"} \cap columns(df) : IsNormalized(df.rows[i][c])

\* C6 (as stated): after the normalization stage, in all three datasets the
\* city identifier and the station identifier of every record have no
\* leading or trailing whitespace and are title-cased.
C6_GroupingKeysNormalized ==
    Len(done) >= 1 =>
        /\ FrameNormalized(city_day)
        /\ FrameNormalized(city_hour)
        /\ FrameNormalized(station_day)

\* position of a category on the severity scale
Rank(cat) == CHOOSE i \in 1..Len(category_order) : category_order[i] = cat

AqiInputs == ProbeValues \cup {Num(0 - 5), Num(0), Num(31), Num(205), Cent(25000), Num(1000)}

Boundaries ==
    { <<Num(30), "Good">>, <<Cent(3001), "Satisfactory">>, <<Num(60), "Satisfactory">>,
      <<Num(90), "Moderate">>, <<Cent(9001), "Poor">>, <<Num(120), "Poor">>,
      <<Num(250), "Very Poor">>, <<Cent(25001), "Severe">> }

Categorized == "AQI_Category" \in columns(city_day)

\* C7: get_aqi_category never decreases in severity as its input increases,
\* and its boundaries are upper-inclusive: 30 Good, 30.01 Satisfactory,
\* 60 Satisfactory, 90 Moderate, 90.01 Poor, 120 Poor, 250 Very Poor,
\* 250.01 Severe -- for the function and for every categorized row.
C7_CategoryMonotonic ==
    /\ \A v, w \in AqiInputs :
          Le(v, w) => Rank(get_aqi_category(v)) <= Rank(get_aqi_category(w))
    /\ \A b \in Boundaries : get_aqi_category(b[1]) = b[2]
    /\ Categorized =>
          /\ \A i, j \in 1..Len(DayRows) :
                Le(DayRows[i]["PM2.5"], DayRows[j]["PM2.5"]) =>
                    Rank(DayRows[i]["AQI_Category"]) <= Rank(DayRows[j]["AQI_Category"])
          /\ \A i \in 1..Len(DayRows) : \A b \in Boundaries :
                SameNum(DayRows[i]["PM2.5"], b[1]) => DayRows[i]["AQI_Category"] = b[2]

C7_Witness ==
    /\ Categorized
    /\ \E i \in 1..Len(DayRows) :
          /\ SameNum(DayRows[i]["PM2.5"], Cent(3001))
          /\ DayRows[i]["AQI_Category"] = "Satisfactory"

RECURSIVE SumOver(_, _)
SumOver(t, order) ==
    IF Len(order) = 0 THEN 0 ELSE t[Head(order)] + SumOver(t, Tail(order))

\* C8: the category distribution has exactly the six fixed categories and
\* its counts sum to the number of rows of the cleaned daily dataset.
C8_CountsSumToRows ==
    "aqi_counts" \in DOMAIN tables =>
        /\ DOMAIN tables["aqi_counts"] = {category_order[i] : i \in 1..Len(category_order)}
        /\ SumOver(tables["aqi_counts"], category_order) = Len(DayRows)

C8_Witness ==
    /\ "aqi_counts" \in DOMAIN tables
    /\ Len(DayRows) >= 2
    /\ tables["aqi_counts"]["Very Poor"] >= 1
    /\ \E k \in DOMAIN tables["aqi_counts"] : k # "Very Poor" /\ tables["aqi_counts"][k] >= 1

\* the table of the claim
SeasonOfMonth ==
    [m \in 1..12 |->
        IF m \in {12, 1, 2} THEN "Winter"
        ELSE IF m \in {3, 4, 5} THEN "Summer"
        ELSE IF m \in {6, 7, 8, 9} THEN "Monsoon"
        ELSE IF m \in {10, 11} THEN "Autumn"
        ELSE "none"]

\* C9: the season derivation maps every month 1..12 to exactly the season of
\* the table -- for the function and for every row with a derived season.
C9_SeasonTotal ==
    /\ \A m \in 1..12 : Season(m) = SeasonOfMonth[m] /\ Season(m) \in season_colors
    /\ "Season" \in columns(city_day) =>
          \A i \in 1..Len(DayRows) :
              /\ DayRows[i]["Month"] \in 1..12
              /\ DayRows[i]["Season"] = SeasonOfMonth[DayRows[i]["Month"]]

C9_Witness ==
    /\ "Season" \in columns(city_day)
    /\ {DayRows[i]["Season"] : i \in 1..Len(DayRows)} = season_colors
    /\ \E i \in 1..Len(DayRows) : DayRows[i]["Month"] = 9 /\ DayRows[i]["Season"] = "Monsoon"

IsPrefix(s, t) == Len(s) <= Len(t) /\ \A i \in 1..Len(s) : s[i] = t[i]

\* the positions from the first statistic to the writing of the report
AggregationPcs == {"stats", "trend", "pie", "seasonal", "comparison", "stations",
                   "heatmap", "write"}

\* C10: the daily dataset goes through normalize, parse, derive, impute,
\* trim, categorize in this order, each once (all six before the first
\* statistic), and from the first statistic on no dataset is modified.
C10_Lifecycle ==
    /\ [](/\ IsPrefix(done, StageOrder)
          /\ pc \in AggregationPcs \cup {"done"} => done = StageOrder)
    /\ [][(pc \in AggregationPcs) => (UNCHANGED <<city_day, city_hour, station_day>>)]_vars

C10_Witness == pc = "done" /\ html.written /\ done = StageOrder

\* the rows of df whose value in column c is at or below the threshold q
AtOrBelow(df, c, q) ==
    FilterRows(df.rows, [i \in 1..Len(df.rows) |-> Le(df.rows[i][c], q)])

\* the rows of df whose value in column c does not exceed the threshold q
NotAbove(df, c, q) ==
    FilterRows(df.rows, [i \in 1..Len(df.rows) |-> ~Lt(q, df.rows[i][c])])

\* C11 (as stated): trimming takes the pollutant columns in list order, and
\* each iteration removes exactly the whole rows whose value exceeds the
\* column's threshold computed on the dataset as trimmed so far; the rows at
\* or below the threshold are kept, unchanged and in their order.
C11_TrimRemovesOnlyRowsAbove ==
    (pc = "trim" /\ col_i > 1) =>
        LET q == quantile99(Column(before_trim, LastTrimmed))
        IN  \/ DayRows = AtOrBelow(before_trim, LastTrimmed, q)
            \/ DayRows = NotAbove(before_trim, LastTrimmed, q)

====
